---- MODULE Spec2Model ----
(***************************************************************************)
(* A model of the python-mcp-server store: the tables of src/src/models.py *)
(* and the operations on them in src/src/mcp_db_helpers*.py, as they are   *)
(* called (each inside one `async with session.begin()` scope) by the tool *)
(* wrappers of src/src/mcp_tools_project.py and                            *)
(* src/src/mcp_server_instance.py and by the routes of                     *)
(* src/src/web_routes.py.                                                  *)
(*                                                                         *)
(* The variables named after the tables hold the COMMITTED rows.  The      *)
(* engine is the one config.py selects by default, SQLite: a statement     *)
(* reads the committed rows, there is one writer at a time, and a primary  *)
(* key is unique.  Integer primary keys are SQLite rowids: a new row gets  *)
(* the largest id in its table plus one.  Timestamps (created_at) are not  *)
(* modelled; creation order is the order of the ids.                       *)
(***************************************************************************)
EXTENDS Integers, FiniteSets, Sequences, TLC

\* ------------------------------------------------------------- bounds
MaxProjects == 2
MaxDocuments == 2
MaxVersions == 3
MaxMemoryEntries == 2
MaxRelations == 2
MaxTx == 2

ProjectIds == 1..MaxProjects
DocumentIds == 1..MaxDocuments
VersionIds == 1..MaxVersions
MemoryEntryIds == 1..MaxMemoryEntries
RelationIds == 1..MaxRelations

\* Text values.  The operations copy them and compare them for equality only.
Names == {"alpha", "beta"}
Contents == {"text", "new text"}
Labels == {"1.0.0", "1.1.0"}
TagNames == {"draft", "final"}
RelationTypes == {"refines"}
MemoryTypes == {"note", "decision"}

\* Document.version's column default, also the default of add_document's argument.
DefaultVersion == "1.0.0"

\* Optional[T]: None is the empty set, a supplied value v is {v}.
None == {}
Some(v) == {v}
Optional(S) == {None} \cup {Some(v) : v \in S}

\* ------------------------------------------------------------- state
VARIABLES
    projects,                         \* id -> [name, is_active]
    documents,                        \* id -> [project_id, name, content, version]
    document_versions,                \* id -> [document_id, content, version]
    tags,                             \* name -> number of rows with that name
    document_tags,                    \* set of <<document_id, tag_name>>
    memory_entries,                   \* id -> [project_id, title, type, content]
    memory_entry_tags,                \* set of <<memory_entry_id, tag_name>>
    memory_entry_document_relations,  \* set of <<memory_entry_id, document_id>>
    memory_entry_relations,           \* id -> [source, target, relation_type]
    tx,                               \* per concurrent request: its position and locals
    last                              \* the request that finished last, and its result

store == <<projects, documents, document_versions, tags, document_tags,
           memory_entries, memory_entry_tags, memory_entry_document_relations,
           memory_entry_relations>>
vars == <<projects, documents, document_versions, tags, document_tags,
          memory_entries, memory_entry_tags, memory_entry_document_relations,
          memory_entry_relations, tx, last>>

\* ------------------------------------------------------------- helpers
Max(S) == CHOOSE m \in S : \A x \in S : x <= m
Remove(f, S) == [k \in DOMAIN f \ S |-> f[k]]
Put(f, k, v) == [x \in DOMAIN f \cup {k} |-> IF x = k THEN v ELSE f[x]]
\* An Integer primary key of SQLite: the largest rowid of the table plus one.
NewId(f) == IF DOMAIN f = {} THEN 1 ELSE Max(DOMAIN f) + 1

Txs == 1..MaxTx
Idle == [pc |-> "idle", op |-> "none", id |-> 0, tag |-> "", label |-> "",
         content |-> "", loaded |-> [content |-> "", version |-> ""], seen |-> {}, raced |-> FALSE,
         is_active |-> FALSE,
         holds |-> "", res |-> "none"]
NoOp == [op |-> "none", id |-> 0, res |-> "none", found |-> {}]
Done(op, id, res) == [op |-> op, id |-> id, res |-> res, found |-> {}]

Init ==
    /\ projects = <<>>
    /\ documents = <<>>
    /\ document_versions = <<>>
    /\ tags = [n \in TagNames |-> 0]
    /\ document_tags = {}
    /\ memory_entries = <<>>
    /\ memory_entry_tags = {}
    /\ memory_entry_document_relations = {}
    /\ memory_entry_relations = <<>>
    /\ tx = [t \in Txs |-> Idle]
    /\ last = NoOp

ActiveProjects == {p \in DOMAIN projects : projects[p].is_active}

\* ------------------------------------------------------------- projects
\* create_project_in_db: inserts the row with the is_active it is given.
create_project_in_db(name, is_active) ==
    Put(projects, NewId(projects), [name |-> name, is_active |-> is_active])

\* update_project_in_db that writes False to is_active when it is not given.
update_project_in_db_resets_unsupplied(project_id, name, is_active) ==
    LET project == projects[project_id]
        new == [name |-> IF name # None /\ project.name \notin name
                         THEN CHOOSE v \in name : TRUE ELSE project.name,
                is_active |-> IF is_active # None
                              THEN CHOOSE v \in is_active : TRUE ELSE FALSE]
    IN  Put(projects, project_id, new)

\* update_project_in_db: a field is overwritten when its argument is not None
\* and differs from the stored value.
update_project_in_db(project_id, name, is_active) ==
    LET project == projects[project_id]
        new == [name |-> IF name # None /\ project.name \notin name
                         THEN CHOOSE v \in name : TRUE ELSE project.name,
                is_active |-> IF is_active # None /\ project.is_active \notin is_active
                              THEN CHOOSE v \in is_active : TRUE ELSE project.is_active]
    IN  Put(projects, project_id, new)

\* set_active_project_in_db without its loop over the other active projects.
set_active_project_in_db_target_only(project_id) ==
    [p \in DOMAIN projects |->
        IF p = project_id THEN [projects[p] EXCEPT !.is_active = TRUE]
        ELSE projects[p]]

\* set_active_project_in_db that inverts the flag of its target.
set_active_project_in_db_toggles(project_id) ==
    LET currently_active_projects ==
            {p \in DOMAIN projects : projects[p].is_active /\ p # project_id}
    IN  [p \in DOMAIN projects |->
            IF p \in currently_active_projects
            THEN [projects[p] EXCEPT !.is_active = FALSE]
            ELSE IF p = project_id
                 THEN [projects[p] EXCEPT !.is_active = ~projects[p].is_active]
                 ELSE projects[p]]

\* set_active_project_in_db: clears the flag of every other active project,
\* then sets the flag of the target.
set_active_project_in_db(project_id) ==
    LET currently_active_projects ==
            {p \in DOMAIN projects : projects[p].is_active /\ p # project_id}
    IN  [p \in DOMAIN projects |->
            IF p \in currently_active_projects
            THEN [projects[p] EXCEPT !.is_active = FALSE]
            ELSE IF p = project_id /\ ~projects[p].is_active
                 THEN [projects[p] EXCEPT !.is_active = TRUE]
                 ELSE projects[p]]

\* ------------------------------------------------------------- cascades
\* The rows session.delete() removes with a Document: its versions
\* (Document.versions, cascade "all, delete-orphan") and its rows in the two
\* secondary tables (Document.tags, Document.memory_entries).
DocumentCascade(D) ==
    /\ documents' = Remove(documents, D)
    /\ document_versions' =
           Remove(document_versions,
                  {v \in DOMAIN document_versions : document_versions[v].document_id \in D})
    /\ document_tags' = {r \in document_tags : r[1] \notin D}

\* MemoryEntryCascade without the cascade of target_relations.
MemoryEntryCascade_source_only(M) ==
    /\ memory_entries' = Remove(memory_entries, M)
    /\ memory_entry_relations' =
           Remove(memory_entry_relations,
                  {r \in DOMAIN memory_entry_relations :
                       memory_entry_relations[r].source \in M})
    /\ memory_entry_tags' = {r \in memory_entry_tags : r[1] \notin M}

\* The rows session.delete() removes with a MemoryEntry: the relations it is
\* the source or the target of (source_relations, target_relations, cascade
\* "all, delete-orphan") and its rows in the secondary tables.
MemoryEntryCascade(M) ==
    /\ memory_entries' = Remove(memory_entries, M)
    /\ memory_entry_relations' =
           Remove(memory_entry_relations,
                  {r \in DOMAIN memory_entry_relations :
                       \/ memory_entry_relations[r].source \in M
                       \/ memory_entry_relations[r].target \in M})
    /\ memory_entry_tags' = {r \in memory_entry_tags : r[1] \notin M}

\* Project.documents and Project.memory_entries, cascade "all, delete-orphan".
ProjectDocuments(project_id) ==
    {d \in DOMAIN documents : documents[d].project_id = project_id}
ProjectMemoryEntries(project_id) ==
    {m \in DOMAIN memory_entries : memory_entries[m].project_id = project_id}

\* delete_project_in_db without the cascade of Project.memory_entries.
delete_project_in_db_documents_only(project_id) ==
    /\ projects' = Remove(projects, {project_id})
    /\ DocumentCascade(ProjectDocuments(project_id))
    /\ memory_entry_document_relations' =
           {r \in memory_entry_document_relations :
                r[2] \notin ProjectDocuments(project_id)}
    /\ UNCHANGED <<tags, memory_entries, memory_entry_relations, memory_entry_tags>>

\* delete_project_in_db on an existing project.
delete_project_in_db(project_id) ==
    /\ projects' = Remove(projects, {project_id})
    /\ DocumentCascade(ProjectDocuments(project_id))
    /\ MemoryEntryCascade(ProjectMemoryEntries(project_id))
    /\ memory_entry_document_relations' =
           {r \in memory_entry_document_relations :
                /\ r[1] \notin ProjectMemoryEntries(project_id)
                /\ r[2] \notin ProjectDocuments(project_id)}
    /\ UNCHANGED tags

\* delete_document_in_db without the rows of Document.memory_entries.
delete_document_in_db_keeps_links(document_id) ==
    /\ DocumentCascade({document_id})
    /\ UNCHANGED <<projects, tags, memory_entries, memory_entry_tags,
                   memory_entry_relations, memory_entry_document_relations>>

\* delete_document_in_db on an existing document.
delete_document_in_db(document_id) ==
    /\ DocumentCascade({document_id})
    /\ memory_entry_document_relations' =
           {r \in memory_entry_document_relations : r[2] # document_id}
    /\ UNCHANGED <<projects, tags, memory_entries, memory_entry_tags,
                   memory_entry_relations>>

\* delete_memory_entry_db on an existing entry.
delete_memory_entry_db(entry_id) ==
    /\ MemoryEntryCascade({entry_id})
    /\ memory_entry_document_relations' =
           {r \in memory_entry_document_relations : r[1] # entry_id}
    /\ UNCHANGED <<projects, tags, documents, document_versions, document_tags>>

\* ------------------------------------------------------------- documents
\* add_document_in_db on an existing project: the Document row, then its
\* first DocumentVersion row with the same content and version.
add_document_in_db(project_id, name, content, version) ==
    LET id == NewId(documents) IN
    /\ documents' = Put(documents, id,
                        [project_id |-> project_id, name |-> name,
                         content |-> content, version |-> version])
    /\ document_versions' = Put(document_versions, NewId(document_versions),
                                [document_id |-> id, content |-> content,
                                 version |-> version])

\* update_document_in_db: metadata only (name, path, type).
update_document_in_db(document_id, name) ==
    LET document == documents[document_id] IN
    Put(documents, document_id,
        [document EXCEPT !.name = IF name # None /\ document.name \notin name
                                  THEN CHOOSE v \in name : TRUE ELSE document.name])

\* The rows the existence check of add_document_version_db selects.
ExistingVersions(document_id, version_string) ==
    {v \in DOMAIN document_versions :
         /\ document_versions[v].document_id = document_id
         /\ document_versions[v].version = version_string}

\* add_document_version_db without its check of the existing labels.
VersionCheck_no_label_check(document_id, version_string) ==
    IF document_id \notin DOMAIN documents THEN "none" ELSE "ok"

\* What add_document_version_db answers before it writes: (None, None) for a
\* missing document, ValueError for a label the document has, and, as
\* scalar_one_or_none() raises MultipleResultsFound (an SQLAlchemyError) on
\* two rows, (None, None) again for a label the document has twice.
VersionCheck(document_id, version_string) ==
    IF document_id \notin DOMAIN documents THEN "none"
    ELSE IF ExistingVersions(document_id, version_string) = {} THEN "ok"
    ELSE IF Cardinality(ExistingVersions(document_id, version_string)) = 1
         THEN "ValueError"
         ELSE "none"

\* What add_document_version_db hands to its caller: `except SQLAlchemyError`
\* turns a storage failure at any of its awaits into (None, None), the value
\* it also returns for a missing document; ValueError is re-raised.
add_document_version_db_returns(document_id, version_string, storage_fails) ==
    IF storage_fails THEN "none" ELSE VersionCheck(document_id, version_string)

\* add_document_version_db without `document.content = content`.
CurrentDocument_keeps_content(row, loaded, content, version_string) ==
    [row EXCEPT !.version = IF version_string # loaded.version THEN version_string
                            ELSE row.version]

\* The parent row add_document_version_db writes back.  `loaded` is the row
\* as session.get() read it: the UPDATE of the flush carries the columns
\* whose new value differs from the loaded one.
CurrentDocument(row, loaded, content, version_string) ==
    [row EXCEPT !.content = IF content # loaded.content THEN content ELSE row.content,
                !.version = IF version_string # loaded.version THEN version_string
                            ELSE row.version]

\* add_document_version_db that rewrites the document's latest version row
\* instead of adding one.
add_document_version_db_overwrites(document_id, loaded, content, version_string) ==
    /\ document_versions' =
           Put(document_versions,
               Max({v \in DOMAIN document_versions :
                        document_versions[v].document_id = document_id}),
               [document_id |-> document_id, content |-> content,
                version |-> version_string])
    /\ documents' = Put(documents, document_id,
                        CurrentDocument(documents[document_id], loaded,
                                        content, version_string))

\* add_document_version_db once the check has passed: the new version row
\* and the parent's content and version, in one flush.
add_document_version_db(document_id, loaded, content, version_string) ==
    /\ document_versions' = Put(document_versions, NewId(document_versions),
                                [document_id |-> document_id, content |-> content,
                                 version |-> version_string])
    /\ documents' = Put(documents, document_id,
                        CurrentDocument(documents[document_id], loaded,
                                        content, version_string))

\* The versions of a document in creation order (Document.versions).
VersionsOf(document_id) ==
    {v \in DOMAIN document_versions : document_versions[v].document_id = document_id}

\* sorted(..., key=lambda v: v.id) over a set of ids.
SortedById(S) ==
    CHOOSE s \in [1..Cardinality(S) -> S] :
        \A i \in 1..Cardinality(S), j \in 1..Cardinality(S) : i < j => s[i] < s[j]

\* sorted(..., key=lambda v: v.id, reverse=True).
SortedByIdReversed(S) ==
    CHOOSE s \in [1..Cardinality(S) -> S] :
        \A i \in 1..Cardinality(S), j \in 1..Cardinality(S) : i < j => s[i] > s[j]

\* list_document_versions with the newest version first.
list_document_versions_newest_first(document_id) ==
    LET sorted_versions == SortedByIdReversed(VersionsOf(document_id)) IN
    [i \in 1..Cardinality(VersionsOf(document_id)) |->
        [version_id |-> sorted_versions[i],
         version_string |-> document_versions[sorted_versions[i]].version,
         is_current |-> document_versions[sorted_versions[i]].version
                            = documents[document_id].version]]

\* list_document_versions of an existing document: its version rows sorted
\* by id, each flagged when its label is the document's.
list_document_versions(document_id) ==
    LET sorted_versions == SortedById(VersionsOf(document_id)) IN
    [i \in 1..Cardinality(VersionsOf(document_id)) |->
        [version_id |-> sorted_versions[i],
         version_string |-> document_versions[sorted_versions[i]].version,
         is_current |-> document_versions[sorted_versions[i]].version
                            = documents[document_id].version]]

\* ------------------------------------------------------------- tags
\* tags.name is the primary key: an INSERT of a name that has a row raises
\* IntegrityError.
TagInsertConflicts(tag_name) == tags[tag_name] > 0

\* The composite primary keys of the secondary tables.
AssociationInsertConflicts(table, row) == row \in table

\* get_or_create_tag when nothing else runs between its SELECT and its
\* INSERT: the row is inserted unless it is there.
get_or_create_tag(tag_name) ==
    IF tags[tag_name] > 0 THEN tags ELSE [tags EXCEPT ![tag_name] = @ + 1]

\* ------------------------------------------------------------- requests
\* Each action below is one request that runs alone: the tool wrapper (or
\* route), its `async with session.begin()` scope and the helper it calls.
projectTables == <<projects>>
documentTables == <<documents, document_versions, document_tags>>
memoryTables == <<memory_entries, memory_entry_tags, memory_entry_relations>>

create_project(name, is_active) ==
    /\ NewId(projects) \in ProjectIds
    /\ projects' = create_project_in_db(name, is_active)
    /\ last' = Done("create_project", NewId(projects), "ok")
    /\ UNCHANGED <<documentTables, memoryTables, tags,
                   memory_entry_document_relations, tx>>

update_project(project_id, name, is_active) ==
    /\ IF project_id \in DOMAIN projects
       THEN /\ projects' = update_project_in_db(project_id, name, is_active)
            /\ last' = Done("update_project", project_id, "ok")
       ELSE /\ UNCHANGED projects
            /\ last' = Done("update_project", project_id, "not_found")
    /\ UNCHANGED <<documentTables, memoryTables, tags,
                   memory_entry_document_relations, tx>>

\* set_active_project that clears the other active projects before it
\* looks for its target.
set_active_project_clears_first(project_id) ==
    /\ IF project_id \in DOMAIN projects
       THEN /\ projects' = set_active_project_in_db(project_id)
            /\ last' = [Done("set_active_project", project_id, "ok") EXCEPT
                           !.found = {"active" : p \in ActiveProjects \ {project_id}}
                                     \cup {"several" : p \in
                                               {q \in {1} : Cardinality(ActiveProjects) > 1}}
                                     \cup {"already" : p \in
                                               ActiveProjects \cap {project_id}}]
       ELSE /\ projects' = [p \in DOMAIN projects |->
                               [projects[p] EXCEPT !.is_active = FALSE]]
            /\ last' = Done("set_active_project", project_id, "not_found")
    /\ UNCHANGED <<documentTables, memoryTables, tags,
                   memory_entry_document_relations, tx>>

set_active_project(project_id) ==
    /\ IF project_id \in DOMAIN projects
       THEN /\ projects' = set_active_project_in_db(project_id)
            /\ last' = [Done("set_active_project", project_id, "ok") EXCEPT
                           !.found = {"active" : p \in ActiveProjects \ {project_id}}
                                     \cup {"several" : p \in
                                               {q \in {1} : Cardinality(ActiveProjects) > 1}}
                                     \cup {"already" : p \in
                                               ActiveProjects \cap {project_id}}]
       ELSE /\ UNCHANGED projects
            /\ last' = Done("set_active_project", project_id, "not_found")
    /\ UNCHANGED <<documentTables, memoryTables, tags,
                   memory_entry_document_relations, tx>>

\* What a delete finds attached to the rows it removes.
Attached(D, M) ==
    {"documents" : d \in D} \cup {"memory_entries" : m \in M}
    \cup {"versions" : v \in {v \in DOMAIN document_versions :
                                  document_versions[v].document_id \in D}}
    \cup {"document_tags" : r \in {r \in document_tags : r[1] \in D}}
    \cup {"memory_entry_tags" : r \in {r \in memory_entry_tags : r[1] \in M}}
    \cup {"links" : r \in {r \in memory_entry_document_relations :
                               r[1] \in M \/ r[2] \in D}}
    \cup {"outgoing" : r \in {r \in DOMAIN memory_entry_relations :
                                  memory_entry_relations[r].source \in M}}
    \cup {"incoming" : r \in {r \in DOMAIN memory_entry_relations :
                                  memory_entry_relations[r].target \in M}}

delete_project(project_id) ==
    /\ IF project_id \in DOMAIN projects
       THEN /\ delete_project_in_db(project_id)
            /\ last' = [Done("delete_project", project_id, "ok") EXCEPT
                           !.found = {"row"} \cup
                               Attached(ProjectDocuments(project_id),
                                       ProjectMemoryEntries(project_id))]
       ELSE /\ UNCHANGED store
            /\ last' = Done("delete_project", project_id, "ok")
    /\ UNCHANGED tx

add_document(project_id, name, content, version) ==
    /\ IF project_id \in DOMAIN projects
       THEN /\ NewId(documents) \in DocumentIds
            /\ NewId(document_versions) \in VersionIds
            /\ add_document_in_db(project_id, name, content, version)
            /\ last' = Done("add_document", NewId(documents), "ok")
       ELSE /\ UNCHANGED <<documents, document_versions>>
            /\ last' = Done("add_document", project_id, "not_found")
    /\ UNCHANGED <<projects, document_tags, memoryTables, tags,
                   memory_entry_document_relations, tx>>

\* `async with session.begin()` on exit: the staged rows are committed unless
\* an exception (or a cancellation) leaves the scope or a failed flush has
\* rolled the transaction back; then the committed rows stay as they were.
ScopeExit_commits_anyway(committed, staged, failed) == staged

ScopeExit(committed, staged, failed) == IF failed THEN committed ELSE staged

\* The awaits of _add_document_in_db after the project was found: the flush
\* that inserts the document, the refresh of the document (its autoflush
\* inserts the version), the refresh of the version.
AddDocumentSteps == {"flush", "refresh_document", "refresh_version"}

\* add_document when a storage failure or a cancellation is raised at `step`:
\* the helper catches nothing, the exception leaves the scope and the tool
\* answers with an error.
add_document_interrupted(project_id, name, content, version, step) ==
    LET id == NewId(documents)
        document == Put(documents, id,
                        [project_id |-> project_id, name |-> name,
                         content |-> content, version |-> version])
        new_version_entry ==
            Put(document_versions, NewId(document_versions),
                [document_id |-> id, content |-> content, version |-> version])
    IN  /\ project_id \in DOMAIN projects
        /\ NewId(documents) \in DocumentIds
        /\ NewId(document_versions) \in VersionIds
        /\ documents' = ScopeExit(documents,
                                  IF step = "flush" THEN documents ELSE document,
                                  TRUE)
        /\ document_versions' =
               ScopeExit(document_versions,
                         IF step = "refresh_version" THEN new_version_entry
                         ELSE document_versions,
                         TRUE)
        /\ last' = [Done("add_document", project_id, "error") EXCEPT
                       !.found = {step}]
        /\ UNCHANGED <<projects, document_tags, memoryTables, tags,
                       memory_entry_document_relations, tx>>

\* The classes of models.py a session can load.
MappedClasses == {"Tag", "Project", "Document", "DocumentVersion", "MemoryEntry",
                  "MemoryEntryRelation"}

\* Session.begin(): a session that has begun a transaction (its first
\* statement begins one) refuses it with InvalidRequestError.
SessionBegin(in_transaction) ==
    IF in_transaction THEN "InvalidRequestError" ELSE "ok"

\* What add_document_in_db of mcp_db_helpers_document.py hands to
\* session.get() to look the project up: the Python type of the column
\* Document.project_id.
ProjectLookupEntity == "int"

\* create_document_web: the route reads the project with db.get(), then
\* opens `async with db.begin()` on the same session and calls
\* add_document_in_db of mcp_db_helpers_document.py.
create_document_web(project_id, name, content, version) ==
    /\ IF project_id \notin DOMAIN projects
       THEN /\ UNCHANGED <<documents, document_versions>>
            /\ last' = Done("create_document_web", project_id, "not_found")
       ELSE IF SessionBegin(TRUE) # "ok" \/ ProjectLookupEntity \notin MappedClasses
       THEN /\ UNCHANGED <<documents, document_versions>>
            /\ last' = Done("create_document_web", project_id, "error")
       ELSE /\ NewId(documents) \in DocumentIds
            /\ NewId(document_versions) \in VersionIds
            /\ add_document_in_db(project_id, name, content, version)
            /\ last' = Done("create_document_web", NewId(documents), "ok")
    /\ UNCHANGED <<projects, document_tags, memoryTables, tags,
                   memory_entry_document_relations, tx>>

update_document(document_id, name) ==
    /\ IF document_id \in DOMAIN documents
       THEN /\ documents' = update_document_in_db(document_id, name)
            /\ last' = Done("update_document", document_id, "ok")
       ELSE /\ UNCHANGED documents
            /\ last' = Done("update_document", document_id, "not_found")
    /\ UNCHANGED <<projects, document_versions, document_tags, memoryTables, tags,
                   memory_entry_document_relations, tx>>

delete_document(document_id) ==
    /\ IF document_id \in DOMAIN documents
       THEN /\ delete_document_in_db(document_id)
            /\ last' = [Done("delete_document", document_id, "ok") EXCEPT
                           !.found = {"row"} \cup Attached({document_id}, {})]
       ELSE /\ UNCHANGED store
            /\ last' = Done("delete_document", document_id, "ok")
    /\ UNCHANGED tx

\* create_document_version_web: the route turns the helper's (None, None)
\* into a ValueError of its own, which rolls back like the helper's.
create_document_version_web(doc_id, version_string, content) ==
    /\ IF VersionCheck(doc_id, version_string) = "ok"
       THEN /\ NewId(document_versions) \in VersionIds
            /\ add_document_version_db(doc_id, documents[doc_id], content, version_string)
            /\ last' = Done("create_document_version", doc_id, "ok")
       ELSE /\ UNCHANGED <<documents, document_versions>>
            /\ last' = Done("create_document_version", doc_id,
                            VersionCheck(doc_id, version_string))
    /\ UNCHANGED <<projects, document_tags, memoryTables, tags,
                   memory_entry_document_relations, tx>>

add_tag_to_document(document_id, tag_name) ==
    /\ IF document_id \in DOMAIN documents
       THEN /\ tags' = get_or_create_tag(tag_name)
            /\ document_tags' = document_tags \cup {<<document_id, tag_name>>}
            /\ last' = Done("add_tag_to_document", document_id, "ok")
       ELSE /\ UNCHANGED <<tags, document_tags>>
            /\ last' = Done("add_tag_to_document", document_id, "not_found")
    /\ UNCHANGED <<projects, documents, document_versions, memoryTables,
                   memory_entry_document_relations, tx>>

\* add_tag_to_document_web: the route looks the document up with db.get,
\* which begins the session's transaction, and only then opens db.begin()
\* around add_tag_to_document_db.
add_tag_to_document_web(doc_id, tag_name) ==
    /\ IF doc_id \notin DOMAIN documents
       THEN /\ UNCHANGED <<tags, document_tags>>
            /\ last' = Done("add_tag_to_document_web", doc_id, "not_found")
       ELSE IF SessionBegin(TRUE) # "ok"
       THEN /\ UNCHANGED <<tags, document_tags>>
            /\ last' = Done("add_tag_to_document_web", doc_id, "error")
       ELSE /\ tags' = get_or_create_tag(tag_name)
            /\ document_tags' = document_tags \cup {<<doc_id, tag_name>>}
            /\ last' = Done("add_tag_to_document_web", doc_id, "ok")
    /\ UNCHANGED <<projects, documents, document_versions, memoryTables,
                   memory_entry_document_relations, tx>>

\* The awaits of _add_tag_to_document_db and _get_or_create_tag for a tag
\* that has no row: the SELECT of the document, the SELECT of the tag, the
\* flush that inserts the tag, the refresh of the tag, the flush that inserts
\* the association.
AddTagSteps == {"select_document", "select_tag", "flush_tag", "refresh_tag",
                "flush_association"}

\* add_tag_to_document for a new tag when a storage failure is raised at
\* `step`.  _add_tag_to_document_db catches it and returns False, so no
\* exception leaves the tool's scope, and the tool looks at the result after
\* the scope has closed.  A failed flush has rolled the transaction back; a
\* failed SELECT or refresh has not, and the scope commits what was flushed
\* before it (when the engine still takes the COMMIT).
add_tag_to_document_interrupted(document_id, tag_name, step) ==
    /\ document_id \in DOMAIN documents
    /\ tags[tag_name] = 0
    /\ \E commit_fails \in BOOLEAN :
          tags' = ScopeExit(tags,
                            IF step = "refresh_tag"
                            THEN [tags EXCEPT ![tag_name] = @ + 1] ELSE tags,
                            step \in {"flush_tag", "flush_association"}
                                \/ commit_fails)
    /\ last' = [Done("add_tag_to_document", document_id, "error") EXCEPT
                   !.found = {step}]
    /\ UNCHANGED <<projects, documents, document_versions, document_tags,
                   memoryTables, memory_entry_document_relations, tx>>

\* The awaits of delete_project_in_db: the get, the delete (it loads what it
\* cascades to), the flush.
DeleteProjectSteps == {"get", "delete", "flush"}

\* delete_project when a storage failure is raised at `step`: the get raises
\* out of the scope; the helper turns a failure of the delete or the flush
\* into False, with nothing flushed.
delete_project_interrupted(project_id, step) ==
    /\ project_id \in DOMAIN projects
    /\ projects' = ScopeExit(projects, projects, step = "get" \/ step = "flush")
    /\ last' = [Done("delete_project", project_id, "error") EXCEPT
                   !.found = {step}]
    /\ UNCHANGED <<documentTables, memoryTables, tags,
                   memory_entry_document_relations, tx>>

\* ------------------------------------------------------------- memory entries
add_memory_entry(project_id, title) ==
    /\ IF project_id \in DOMAIN projects
       THEN /\ NewId(memory_entries) \in MemoryEntryIds
            /\ memory_entries' = Put(memory_entries, NewId(memory_entries),
                                     [project_id |-> project_id, title |-> title,
                                      type |-> "note", content |-> "text"])
            /\ last' = Done("add_memory_entry", NewId(memory_entries), "ok")
       ELSE /\ UNCHANGED memory_entries
            /\ last' = Done("add_memory_entry", project_id, "not_found")
    /\ UNCHANGED <<projects, documentTables, memory_entry_tags,
                   memory_entry_relations, tags, memory_entry_document_relations, tx>>

\* update_memory_entry_db: a field is overwritten when its argument is not
\* None and differs from the stored value.
update_memory_entry_db(entry_id, title, type, content) ==
    LET entry == memory_entries[entry_id]
        new == [entry EXCEPT
                   !.title = IF title # None /\ entry.title \notin title
                             THEN CHOOSE v \in title : TRUE ELSE entry.title,
                   !.type = IF type # None /\ entry.type \notin type
                            THEN CHOOSE v \in type : TRUE ELSE entry.type,
                   !.content = IF content # None /\ entry.content \notin content
                               THEN CHOOSE v \in content : TRUE ELSE entry.content]
    IN  Put(memory_entries, entry_id, new)

\* update_memory_entry, the tool, which runs the same loop over the same
\* three fields.
update_memory_entry(memory_entry_id, type, title, content) ==
    /\ IF memory_entry_id \in DOMAIN memory_entries
       THEN /\ memory_entries' =
                   update_memory_entry_db(memory_entry_id, title, type, content)
            /\ last' = [Done("update_memory_entry", memory_entry_id, "ok") EXCEPT
                           !.found = {"title" : v \in title} \cup {"type" : v \in type}
                                     \cup {"content" : v \in content}]
       ELSE /\ UNCHANGED memory_entries
            /\ last' = Done("update_memory_entry", memory_entry_id, "not_found")
    /\ UNCHANGED <<projects, documentTables, memory_entry_tags,
                   memory_entry_relations, tags, memory_entry_document_relations, tx>>

\* delete_memory_entry_web: the route around delete_memory_entry_db.
delete_memory_entry_web(entry_id) ==
    /\ IF entry_id \in DOMAIN memory_entries
       THEN /\ delete_memory_entry_db(entry_id)
            /\ last' = [Done("delete_memory_entry", entry_id, "ok") EXCEPT
                           !.found = {"row"} \cup Attached({}, {entry_id})]
       ELSE /\ UNCHANGED store
            /\ last' = Done("delete_memory_entry", entry_id, "ok")
    /\ UNCHANGED tx

\* delete_memory_entry, the tool: it does the get and the delete itself and
\* answers "not found" when the get returns None.
delete_memory_entry(memory_entry_id) ==
    /\ IF memory_entry_id \in DOMAIN memory_entries
       THEN /\ delete_memory_entry_db(memory_entry_id)
            /\ last' = [Done("delete_memory_entry", memory_entry_id, "ok") EXCEPT
                           !.found = {"row"} \cup Attached({}, {memory_entry_id})]
       ELSE /\ UNCHANGED store
            /\ last' = Done("delete_memory_entry", memory_entry_id, "not_found")
    /\ UNCHANGED tx

\* add_tag_to_memory_entry with the tag looked up before the entry.
add_tag_to_memory_entry_tag_first(memory_entry_id, tag_name) ==
    /\ tags' = get_or_create_tag(tag_name)
    /\ IF memory_entry_id \in DOMAIN memory_entries
       THEN /\ memory_entry_tags' = memory_entry_tags \cup {<<memory_entry_id, tag_name>>}
            /\ last' = Done("add_tag_to_memory_entry", memory_entry_id, "ok")
       ELSE /\ UNCHANGED memory_entry_tags
            /\ last' = Done("add_tag_to_memory_entry", memory_entry_id, "not_found")
    /\ UNCHANGED <<projects, documentTables, memory_entries, memory_entry_relations,
                   memory_entry_document_relations, tx>>

add_tag_to_memory_entry(memory_entry_id, tag_name) ==
    /\ IF memory_entry_id \in DOMAIN memory_entries
       THEN /\ tags' = get_or_create_tag(tag_name)
            /\ memory_entry_tags' = memory_entry_tags \cup {<<memory_entry_id, tag_name>>}
            /\ last' = Done("add_tag_to_memory_entry", memory_entry_id, "ok")
       ELSE /\ UNCHANGED <<tags, memory_entry_tags>>
            /\ last' = Done("add_tag_to_memory_entry", memory_entry_id, "not_found")
    /\ UNCHANGED <<projects, documentTables, memory_entries, memory_entry_relations,
                   memory_entry_document_relations, tx>>

\* add_tag_to_memory_entry_web: db.get of the entry, then db.begin() around
\* add_tag_to_memory_entry_db.
add_tag_to_memory_entry_web(entry_id, tag_name) ==
    /\ IF entry_id \notin DOMAIN memory_entries
       THEN /\ UNCHANGED <<tags, memory_entry_tags>>
            /\ last' = Done("add_tag_to_memory_entry_web", entry_id, "not_found")
       ELSE IF SessionBegin(TRUE) # "ok"
       THEN /\ UNCHANGED <<tags, memory_entry_tags>>
            /\ last' = Done("add_tag_to_memory_entry_web", entry_id, "error")
       ELSE /\ tags' = get_or_create_tag(tag_name)
            /\ memory_entry_tags' = memory_entry_tags \cup {<<entry_id, tag_name>>}
            /\ last' = Done("add_tag_to_memory_entry_web", entry_id, "ok")
    /\ UNCHANGED <<projects, documentTables, memory_entries, memory_entry_relations,
                   memory_entry_document_relations, tx>>

link_memory_entry_to_document(memory_entry_id, document_id) ==
    /\ IF memory_entry_id \in DOMAIN memory_entries /\ document_id \in DOMAIN documents
       THEN /\ memory_entry_document_relations' =
                   memory_entry_document_relations \cup {<<memory_entry_id, document_id>>}
            /\ last' = Done("link_memory_entry_to_document", memory_entry_id, "ok")
       ELSE /\ UNCHANGED memory_entry_document_relations
            /\ last' = Done("link_memory_entry_to_document", memory_entry_id, "not_found")
    /\ UNCHANGED <<projects, documentTables, memoryTables, tags, tx>>

\* remove_tag_from_document that also deletes a tag left without owners.
remove_tag_from_document_drops_orphan(document_id, tag_name) ==
    /\ document_tags' = document_tags \ {<<document_id, tag_name>>}
    /\ tags' = IF \A r \in document_tags' \cup memory_entry_tags : r[2] # tag_name
               THEN [tags EXCEPT ![tag_name] = 0] ELSE tags
    /\ last' = [Done("remove_tag_from_document", document_id, "ok") EXCEPT
                   !.found = IF <<document_id, tag_name>> \in document_tags
                             THEN {"association"} ELSE {}]
    /\ UNCHANGED <<projects, documents, document_versions, memoryTables,
                   memory_entry_document_relations, tx>>

\* remove_tag_from_document, the tool around _remove_tag_from_document_db:
\* a missing document and a tag that is not on the document are both a
\* success.
remove_tag_from_document(document_id, tag_name) ==
    /\ document_tags' = document_tags \ {<<document_id, tag_name>>}
    /\ last' = [Done("remove_tag_from_document", document_id, "ok") EXCEPT
                   !.found = IF <<document_id, tag_name>> \in document_tags
                             THEN {"association"} ELSE {}]
    /\ UNCHANGED <<projects, documents, document_versions, memoryTables, tags,
                   memory_entry_document_relations, tx>>

\* remove_tag_from_memory_entry that takes the tag off every memory entry.
remove_tag_from_memory_entry_every_owner(memory_entry_id, tag_name) ==
    /\ IF memory_entry_id \in DOMAIN memory_entries
       THEN /\ memory_entry_tags' = {r \in memory_entry_tags : r[2] # tag_name}
            /\ last' = [Done("remove_tag_from_memory_entry", memory_entry_id, "ok")
                           EXCEPT !.found =
                               IF <<memory_entry_id, tag_name>> \in memory_entry_tags
                               THEN {"association"} ELSE {}]
       ELSE /\ UNCHANGED memory_entry_tags
            /\ last' = Done("remove_tag_from_memory_entry", memory_entry_id,
                            "not_found")
    /\ UNCHANGED <<projects, documentTables, memory_entries, memory_entry_relations,
                   tags, memory_entry_document_relations, tx>>

\* remove_tag_from_memory_entry, the tool: it answers "not found" when the
\* entry has no row, and with a message when the tag is not on the entry.
remove_tag_from_memory_entry(memory_entry_id, tag_name) ==
    /\ IF memory_entry_id \in DOMAIN memory_entries
       THEN /\ memory_entry_tags' = memory_entry_tags \ {<<memory_entry_id, tag_name>>}
            /\ last' = [Done("remove_tag_from_memory_entry", memory_entry_id, "ok")
                           EXCEPT !.found =
                               IF <<memory_entry_id, tag_name>> \in memory_entry_tags
                               THEN {"association"} ELSE {}]
       ELSE /\ UNCHANGED memory_entry_tags
            /\ last' = Done("remove_tag_from_memory_entry", memory_entry_id,
                            "not_found")
    /\ UNCHANGED <<projects, documentTables, memory_entries, memory_entry_relations,
                   tags, memory_entry_document_relations, tx>>

\* unlink_memory_entry_from_document, the tool: it answers "not found" when
\* the entry has no row, and with a message when there is no link.
unlink_memory_entry_from_document(memory_entry_id, document_id) ==
    /\ IF memory_entry_id \in DOMAIN memory_entries
       THEN /\ memory_entry_document_relations' =
                   memory_entry_document_relations \ {<<memory_entry_id, document_id>>}
            /\ last' = [Done("unlink_memory_entry_from_document", memory_entry_id,
                             "ok")
                           EXCEPT !.found =
                               IF <<memory_entry_id, document_id>>
                                      \in memory_entry_document_relations
                               THEN {"association"} ELSE {}]
       ELSE /\ UNCHANGED memory_entry_document_relations
            /\ last' = Done("unlink_memory_entry_from_document", memory_entry_id,
                            "not_found")
    /\ UNCHANGED <<projects, documentTables, memoryTables, tags, tx>>

\* What link_memory_entries_db hands to its caller: None for a self-link,
\* None for a missing entry, None for a storage failure, else the relation.
link_memory_entries_db_returns(source_memory_entry_id, target_memory_entry_id, storage_fails) ==
    IF source_memory_entry_id = target_memory_entry_id THEN "none"
    ELSE IF storage_fails THEN "none"
    ELSE IF \/ source_memory_entry_id \notin DOMAIN memory_entries
            \/ target_memory_entry_id \notin DOMAIN memory_entries
         THEN "none"
         ELSE "relation"

\* link_memory_entries_db with a check for a relation of the same source,
\* target and type.
link_memory_entries_db_unique(source_memory_entry_id, target_memory_entry_id, relation_type) ==
    LET row == [source |-> source_memory_entry_id, target |-> target_memory_entry_id,
                relation_type |-> relation_type]
    IN  IF \E r \in DOMAIN memory_entry_relations : memory_entry_relations[r] = row
        THEN memory_entry_relations
        ELSE Put(memory_entry_relations, NewId(memory_entry_relations), row)

\* link_memory_entries_db between two existing, different entries.
link_memory_entries_db(source_memory_entry_id, target_memory_entry_id, relation_type) ==
    Put(memory_entry_relations, NewId(memory_entry_relations),
        [source |-> source_memory_entry_id, target |-> target_memory_entry_id,
         relation_type |-> relation_type])

\* link_memory_entries without its comparison of the two ids.
link_memory_entries_no_self_check(source_memory_entry_id, target_memory_entry_id, relation_type) ==
    /\ IF /\ source_memory_entry_id \in DOMAIN memory_entries
          /\ target_memory_entry_id \in DOMAIN memory_entries
       THEN /\ NewId(memory_entry_relations) \in RelationIds
            /\ memory_entry_relations' =
                   link_memory_entries_db(source_memory_entry_id,
                                          target_memory_entry_id, relation_type)
            /\ last' = Done("link_memory_entries", NewId(memory_entry_relations), "ok")
       ELSE /\ UNCHANGED memory_entry_relations
            /\ last' = Done("link_memory_entries", source_memory_entry_id, "not_found")
    /\ UNCHANGED <<projects, documentTables, memory_entries, memory_entry_tags, tags,
                   memory_entry_document_relations, tx>>

\* link_memory_entries without its check of the target entry.
link_memory_entries_source_only(source_memory_entry_id, target_memory_entry_id, relation_type) ==
    /\ IF source_memory_entry_id = target_memory_entry_id
       THEN /\ UNCHANGED memory_entry_relations
            /\ last' = Done("link_memory_entries", source_memory_entry_id, "self_link")
       ELSE IF source_memory_entry_id \in DOMAIN memory_entries
       THEN /\ NewId(memory_entry_relations) \in RelationIds
            /\ memory_entry_relations' =
                   link_memory_entries_db(source_memory_entry_id,
                                          target_memory_entry_id, relation_type)
            /\ last' = Done("link_memory_entries", NewId(memory_entry_relations), "ok")
       ELSE /\ UNCHANGED memory_entry_relations
            /\ last' = Done("link_memory_entries", source_memory_entry_id, "not_found")
    /\ UNCHANGED <<projects, documentTables, memory_entries, memory_entry_tags, tags,
                   memory_entry_document_relations, tx>>

link_memory_entries(source_memory_entry_id, target_memory_entry_id, relation_type) ==
    /\ IF source_memory_entry_id = target_memory_entry_id
       THEN /\ UNCHANGED memory_entry_relations
            /\ last' = Done("link_memory_entries", source_memory_entry_id, "self_link")
       ELSE IF /\ source_memory_entry_id \in DOMAIN memory_entries
               /\ target_memory_entry_id \in DOMAIN memory_entries
       THEN /\ NewId(memory_entry_relations) \in RelationIds
            /\ memory_entry_relations' =
                   link_memory_entries_db(source_memory_entry_id,
                                          target_memory_entry_id, relation_type)
            /\ last' = Done("link_memory_entries", NewId(memory_entry_relations), "ok")
       ELSE /\ UNCHANGED memory_entry_relations
            /\ last' = Done("link_memory_entries", source_memory_entry_id, "not_found")
    /\ UNCHANGED <<projects, documentTables, memory_entries, memory_entry_tags, tags,
                   memory_entry_document_relations, tx>>

\* list_related_memory_entries with the two relationships exchanged.
list_related_memory_entries_swapped(memory_entry_id) ==
    [relations_from_this |->
         {[relation_id |-> r,
           relation_type |-> memory_entry_relations[r].relation_type,
           target_entry_id |-> memory_entry_relations[r].target] :
              r \in {r \in DOMAIN memory_entry_relations :
                         /\ memory_entry_relations[r].target = memory_entry_id
                         /\ memory_entry_relations[r].source \in DOMAIN memory_entries}},
     relations_to_this |->
         {[relation_id |-> r,
           relation_type |-> memory_entry_relations[r].relation_type,
           source_entry_id |-> memory_entry_relations[r].source] :
              r \in {r \in DOMAIN memory_entry_relations :
                         /\ memory_entry_relations[r].source = memory_entry_id
                         /\ memory_entry_relations[r].target \in DOMAIN memory_entries}}]

\* list_related_memory_entries of an existing entry: the rows of
\* MemoryEntry.source_relations whose target entry loads, and the rows of
\* MemoryEntry.target_relations whose source entry loads.
list_related_memory_entries(memory_entry_id) ==
    [relations_from_this |->
         {[relation_id |-> r,
           relation_type |-> memory_entry_relations[r].relation_type,
           target_entry_id |-> memory_entry_relations[r].target] :
              r \in {r \in DOMAIN memory_entry_relations :
                         /\ memory_entry_relations[r].source = memory_entry_id
                         /\ memory_entry_relations[r].target \in DOMAIN memory_entries}},
     relations_to_this |->
         {[relation_id |-> r,
           relation_type |-> memory_entry_relations[r].relation_type,
           source_entry_id |-> memory_entry_relations[r].source] :
              r \in {r \in DOMAIN memory_entry_relations :
                         /\ memory_entry_relations[r].target = memory_entry_id
                         /\ memory_entry_relations[r].source \in DOMAIN memory_entries}}]

\* unlink_memory_entry_relation_db on an existing relation: session.delete
\* of that row.
unlink_memory_entry_relation_db(relation_id) ==
    Remove(memory_entry_relations, {relation_id})

\* unlink_memory_entries, the tool: "not found" when the get returns None.
unlink_memory_entries(relation_id) ==
    /\ IF relation_id \in DOMAIN memory_entry_relations
       THEN /\ memory_entry_relations' = unlink_memory_entry_relation_db(relation_id)
            /\ last' = [Done("unlink_memory_entries", relation_id, "ok") EXCEPT
                           !.found = {"row"}]
       ELSE /\ UNCHANGED memory_entry_relations
            /\ last' = Done("unlink_memory_entries", relation_id, "not_found")
    /\ UNCHANGED <<projects, documentTables, memory_entries, memory_entry_tags, tags,
                   memory_entry_document_relations, tx>>

\* unlink_memory_relation_web: the route sets no error message when the get
\* returns None and redirects as after a delete.
unlink_memory_relation_web(relation_id) ==
    /\ IF relation_id \in DOMAIN memory_entry_relations
       THEN /\ memory_entry_relations' = unlink_memory_entry_relation_db(relation_id)
            /\ last' = [Done("unlink_memory_relation_web", relation_id, "ok") EXCEPT
                           !.found = {"row"}]
       ELSE /\ UNCHANGED memory_entry_relations
            /\ last' = Done("unlink_memory_relation_web", relation_id, "ok")
    /\ UNCHANGED <<projects, documentTables, memory_entries, memory_entry_tags, tags,
                   memory_entry_document_relations, tx>>

\* ------------------------------------------------------------- projects alone
NextProjects ==
    \/ \E name \in Names, is_active \in BOOLEAN : create_project(name, is_active)
    \/ \E project_id \in ProjectIds, name \in Optional(Names),
          is_active \in Optional(BOOLEAN) :
           update_project(project_id, name, is_active)
    \/ \E project_id \in ProjectIds : set_active_project(project_id)
    \/ \E project_id \in ProjectIds : delete_project(project_id)

SpecProjects == Init /\ [][NextProjects]_vars

\* C1: at most one Project has is_active = true, in every committed state.
C1_AtMostOneActive == Cardinality(ActiveProjects) <= 1

\* C6: right after set_active_project(p) succeeded, p is the one active project.
C6_ActivateLeavesOnlyTarget ==
    (last.op = "set_active_project" /\ last.res = "ok")
        => ActiveProjects = {last.id}

\* An activation that found several projects active and left only its target.
C6_Witness ==
    /\ last.op = "set_active_project" /\ last.res = "ok"
    /\ "several" \in last.found
    /\ ActiveProjects = {last.id}

\* C19: a step that changes the active flag of a project that exists before
\* and after it is a set_active_project step, and update_project leaves the
\* flag of its project as it was, whatever its arguments.
C19_OnlyActivateChangesTheFlag ==
    [][/\ (\E p \in DOMAIN projects \cap DOMAIN projects' :
              projects'[p].is_active # projects[p].is_active)
          => last'.op = "set_active_project"
       /\ \A p \in DOMAIN projects, name \in Optional(Names),
             is_active \in Optional(BOOLEAN) :
             update_project(p, name, is_active)
             => projects'[p].is_active = projects[p].is_active]_vars

\* C29: activating an id that no project has answers "not found" and leaves
\* the store as it was; the project that is active stays active.
C29_ActivateAbsentProject ==
    [][\A p \in ProjectIds :
          (p \notin DOMAIN projects /\ set_active_project(p))
          => (/\ last'.res = "not_found"
              /\ store' = store
              /\ ActiveProjects' = ActiveProjects)]_vars

\* A refused activation while a project is active.
C29_Witness ==
    /\ last.op = "set_active_project" /\ last.res = "not_found"
    /\ last.id \notin DOMAIN projects
    /\ ActiveProjects # {}

\* C30: activating an existing project succeeds; when the project is
\* already the only active one the step changes nothing; and the state an
\* activation leaves is the state a second activation of the same project
\* leaves.
C30_ActivateIsIdempotent ==
    [][\A p \in ProjectIds :
          (p \in DOMAIN projects /\ set_active_project(p))
          => (/\ last'.res = "ok"
              /\ ActiveProjects = {p} => store' = store
              /\ set_active_project_in_db(p)' = projects')]_vars

\* An activation of the project that was already the only active one, next
\* to another project.
C30_Witness ==
    /\ last.op = "set_active_project" /\ last.res = "ok"
    /\ last.found = {"already"}
    /\ ActiveProjects = {last.id}
    /\ Cardinality(DOMAIN projects) = 2

\* ------------------------------------------------------------- documents alone
NextDocuments ==
    \/ create_project("alpha", FALSE)
    \/ \E project_id \in ProjectIds : delete_project(project_id)
    \/ \E project_id \in ProjectIds, content \in Contents, version \in Labels :
           add_document(project_id, "alpha", content, version)
    \/ \E project_id \in ProjectIds :
           create_document_web(project_id, "alpha", "text", DefaultVersion)
    \/ \E project_id \in ProjectIds, step \in AddDocumentSteps :
           add_document_interrupted(project_id, "alpha", "text", DefaultVersion, step)
    \/ \E document_id \in DocumentIds, name \in Optional(Names) :
           update_document(document_id, name)
    \/ \E document_id \in DocumentIds : delete_document(document_id)
    \/ \E doc_id \in DocumentIds, version_string \in Labels, content \in Contents :
           create_document_version_web(doc_id, version_string, content)

SpecDocuments == Init /\ [][NextDocuments]_vars

\* C2: the content and version of every document are those of the version
\* row appended to it last.
C2_CurrentIsLatestVersion ==
    \A d \in DOMAIN documents :
        /\ VersionsOf(d) # {}
        /\ documents[d].content = document_versions[Max(VersionsOf(d))].content
        /\ documents[d].version = document_versions[Max(VersionsOf(d))].version

\* A renamed document right after a version with another content was added.
C2_Witness ==
    /\ last.op = "create_document_version" /\ last.res = "ok"
    /\ last.id \in DOMAIN documents
    /\ documents[last.id].name = "beta"
    /\ \E v \in VersionsOf(last.id) :
           document_versions[v].content # documents[last.id].content

\* C11: every document has at least one version row, also after an
\* add_document that a failure or a cancellation interrupted between its
\* two writes.
C11_EveryDocumentHasAVersion ==
    \A d \in DOMAIN documents : VersionsOf(d) # {}

\* An add_document interrupted after its document row was flushed and
\* before its version row was, next to documents that were created whole.
C11_Witness ==
    /\ last.op = "add_document" /\ last.res = "error"
    /\ "refresh_document" \in last.found
    /\ documents # <<>>
    /\ \A d \in DOMAIN documents : Cardinality(VersionsOf(d)) >= 1

\* C12: creating a document in an existing project succeeds, through the
\* tool and through the route, and the new document has exactly one version
\* row, with the document's content and version.
C12_CreateDocumentSucceeds ==
    [][\A p \in ProjectIds, c \in Contents, v \in Labels :
          (/\ p \in DOMAIN projects
           /\ \/ add_document(p, "alpha", c, v)
              \/ create_document_web(p, "alpha", c, v))
          => (/\ last'.res = "ok"
              /\ last'.id \in DOMAIN documents' \ DOMAIN documents
              /\ documents'[last'.id].content = c
              /\ documents'[last'.id].version = v
              /\ \E n \in DOMAIN document_versions' :
                     /\ document_versions'[n] =
                            [document_id |-> last'.id, content |-> c, version |-> v]
                     /\ \A m \in DOMAIN document_versions' :
                            document_versions'[m].document_id = last'.id => m = n)]_vars

C28_VersionsAreImmutable ==
    [][/\ \A v \in DOMAIN document_versions :
             IF v \in DOMAIN document_versions'
             THEN document_versions'[v] = document_versions[v]
             ELSE /\ document_versions[v].document_id \notin DOMAIN documents'
                  /\ last'.op \in {"delete_document", "delete_project"}
       /\ \A d \in DocumentIds, v \in Labels, c \in Contents, n \in Optional(Names) :
             (create_document_version_web(d, v, c) \/ update_document(d, n))
             => \A w \in DOMAIN document_versions :
                    /\ w \in DOMAIN document_versions'
                    /\ document_versions'[w] = document_versions[w]]_vars

\* A renamed document that has two versions with different contents.
C28_Witness ==
    /\ last.op = "update_document" /\ last.res = "ok"
    /\ last.id \in DOMAIN documents
    /\ documents[last.id].name = "beta"
    /\ \E v \in VersionsOf(last.id), w \in VersionsOf(last.id) :
          document_versions[v].content # document_versions[w].content

\* C7: adding a version under a label the document has fails with the
\* validation error and writes neither a version row nor the document.
C7_ExistingLabelRejected ==
    [][\A d \in DocumentIds, v \in Labels, c \in Contents :
          (/\ d \in DOMAIN documents
           /\ ExistingVersions(d, v) # {}
           /\ create_document_version_web(d, v, c))
          => (/\ last'.res = "ValueError"
              /\ documents' = documents
              /\ document_versions' = document_versions)]_vars

\* A rejected version of a document that has two labels.
C7_Witness ==
    /\ last.op = "create_document_version" /\ last.res = "ValueError"
    /\ Cardinality(VersionsOf(last.id)) >= 2

\* ------------------------------------------------------------- the whole store
Next ==
    \/ create_project("alpha", FALSE)
    \/ \E project_id \in ProjectIds : delete_project(project_id)
    \/ \E project_id \in ProjectIds :
           add_document(project_id, "alpha", "text", DefaultVersion)
    \/ \E document_id \in DocumentIds : delete_document(document_id)
    \/ \E document_id \in DocumentIds : add_tag_to_document(document_id, "draft")
    \/ \E project_id \in ProjectIds : add_memory_entry(project_id, "alpha")
    \/ \E entry_id \in MemoryEntryIds : delete_memory_entry_web(entry_id)
    \/ \E memory_entry_id \in MemoryEntryIds : delete_memory_entry(memory_entry_id)
    \/ \E memory_entry_id \in MemoryEntryIds :
           add_tag_to_memory_entry(memory_entry_id, "draft")
    \/ \E memory_entry_id \in MemoryEntryIds, document_id \in DocumentIds :
           link_memory_entry_to_document(memory_entry_id, document_id)
    \/ \E source \in MemoryEntryIds, target \in MemoryEntryIds, t \in RelationTypes :
           link_memory_entries(source, target, Some(t))
    \/ \E document_id \in DocumentIds : remove_tag_from_document(document_id, "draft")
    \/ \E memory_entry_id \in MemoryEntryIds :
           remove_tag_from_memory_entry(memory_entry_id, "draft")

Spec == Init /\ [][Next]_vars

\* C8: deleting a memory entry leaves no relation with it as source or
\* target, and leaves the documents linked to it and the tags attached to it
\* as they were.
C8_DeleteMemoryEntry ==
    [][\A m \in MemoryEntryIds :
          (m \in DOMAIN memory_entries /\ delete_memory_entry_web(m))
          => (/\ m \notin DOMAIN memory_entries'
              /\ \A r \in DOMAIN memory_entry_relations' :
                     /\ memory_entry_relations'[r].source # m
                     /\ memory_entry_relations'[r].target # m
              /\ \A r \in memory_entry_document_relations :
                     r[1] = m => /\ r[2] \in DOMAIN documents'
                                 /\ documents'[r[2]] = documents[r[2]]
              /\ \A r \in memory_entry_tags :
                     r[1] = m => tags'[r[2]] = tags[r[2]] /\ tags'[r[2]] > 0)]_vars

\* A deleted entry that had incoming and outgoing relations, a linked
\* document and a tag.
C8_Witness ==
    /\ last.op = "delete_memory_entry"
    /\ {"row", "incoming", "outgoing", "links", "memory_entry_tags"} \subseteq last.found
    /\ documents # <<>> /\ memory_entries # <<>>

\* C14: linking an entry to itself is refused as invalid, whether the entry
\* exists or not, and writes nothing; no relation has its source as target.
C14_NoSelfLink ==
    [][/\ \A a \in MemoryEntryIds, t \in RelationTypes :
             link_memory_entries(a, a, Some(t))
             => (last'.res = "self_link" /\ store' = store)
       /\ \A r \in DOMAIN memory_entry_relations' :
             memory_entry_relations'[r].source # memory_entry_relations'[r].target]_vars

\* A refused self-link of an existing entry that has a relation.
C14_Witness ==
    /\ last.op = "link_memory_entries" /\ last.res = "self_link"
    /\ last.id \in DOMAIN memory_entries
    /\ \E r \in DOMAIN memory_entry_relations :
          memory_entry_relations[r].source = last.id

\* C15: deleting a project, a document or a memory entry whose id has no
\* row answers with a success and leaves the store as it was, through every
\* entry point.
C15_DeleteOfAbsentSucceeds ==
    [][/\ \A p \in ProjectIds :
             (p \notin DOMAIN projects /\ delete_project(p))
             => (last'.res = "ok" /\ store' = store)
       /\ \A d \in DocumentIds :
             (d \notin DOMAIN documents /\ delete_document(d))
             => (last'.res = "ok" /\ store' = store)
       /\ \A m \in MemoryEntryIds :
             (/\ m \notin DOMAIN memory_entries
              /\ delete_memory_entry_web(m) \/ delete_memory_entry(m))
             => (last'.res = "ok" /\ store' = store)]_vars

\* C21: deleting an existing document removes its row, its version rows and
\* its rows in document_tags and in the links to memory entries, and leaves
\* every tag, every memory entry, every project and every row of the other
\* documents as they were.
C21_DeleteDocument ==
    [][\A d \in DocumentIds :
          (d \in DOMAIN documents /\ delete_document(d))
          => /\ last'.res = "ok"
             /\ documents' = Remove(documents, {d})
             /\ document_versions' =
                    Remove(document_versions,
                           {v \in DOMAIN document_versions :
                                document_versions[v].document_id = d})
             /\ document_tags' = {r \in document_tags : r[1] # d}
             /\ memory_entry_document_relations' =
                    {r \in memory_entry_document_relations : r[2] # d}
             /\ tags' = tags
             /\ memory_entries' = memory_entries
             /\ memory_entry_tags' = memory_entry_tags
             /\ memory_entry_relations' = memory_entry_relations
             /\ projects' = projects]_vars

\* A deleted document that had a version, a tag and a linked memory entry,
\* next to a document that keeps its tag.
C21_Witness ==
    /\ last.op = "delete_document"
    /\ {"row", "versions", "document_tags", "links"} \subseteq last.found
    /\ \E r \in document_tags : r[1] \in DOMAIN documents
    /\ memory_entries # <<>>

\* C27: no step removes a tag row: a name that has a row before a step has
\* it after the step, also when the step detaches the tag from its last
\* owner or deletes that owner.
C27_TagsOnlyGrow ==
    [][\A t \in TagNames : tags'[t] >= tags[t]]_vars

\* A tag that is left without any association after a detach.
C27_Witness ==
    /\ last.op \in {"remove_tag_from_document", "remove_tag_from_memory_entry"}
    /\ "association" \in last.found
    /\ \E t \in TagNames :
          /\ tags[t] > 0
          /\ \A r \in document_tags \cup memory_entry_tags : r[2] # t

\* C32: what link_memory_entries_db hands back for a missing target is never
\* what it hands back for a self-link or for a storage failure, and what
\* add_document_version_db hands back for a missing document is never what
\* it hands back for a label an existing document has or for a storage
\* failure on an existing document.
C32_ErrorKindsDistinguishable ==
    /\ \A a \in MemoryEntryIds, b \in MemoryEntryIds :
          (a \in DOMAIN memory_entries /\ b \notin DOMAIN memory_entries)
          => /\ \A c \in MemoryEntryIds :
                    link_memory_entries_db_returns(a, b, FALSE)
                        # link_memory_entries_db_returns(c, c, FALSE)
             /\ \A c \in MemoryEntryIds, d \in MemoryEntryIds :
                    c # d => link_memory_entries_db_returns(a, b, FALSE)
                                 # link_memory_entries_db_returns(c, d, TRUE)
    /\ \A d \in DocumentIds, v \in Labels :
          d \notin DOMAIN documents
          => /\ \A e \in DOMAIN documents, w \in Labels :
                    ExistingVersions(e, w) # {}
                    => add_document_version_db_returns(d, v, FALSE)
                           # add_document_version_db_returns(e, w, FALSE)
             /\ \A e \in DOMAIN documents, w \in Labels :
                    add_document_version_db_returns(d, v, FALSE)
                        # add_document_version_db_returns(e, w, TRUE)

\* C9: deleting a project leaves none of its documents, memory entries,
\* versions, relations and association rows, and leaves the rows of the
\* other projects and every tag as they were.
C9_DeleteProject ==
    [][\A p \in ProjectIds :
          (p \in DOMAIN projects /\ delete_project(p))
          => LET D == ProjectDocuments(p)
                 M == ProjectMemoryEntries(p)
                 OfD == {v \in DOMAIN document_versions :
                            document_versions[v].document_id \in D}
                 OfM == {r \in DOMAIN memory_entry_relations :
                            \/ memory_entry_relations[r].source \in M
                            \/ memory_entry_relations[r].target \in M}
             IN  /\ projects' = Remove(projects, {p})
                 /\ documents' = Remove(documents, D)
                 /\ memory_entries' = Remove(memory_entries, M)
                 /\ document_versions' = Remove(document_versions, OfD)
                 /\ memory_entry_relations' = Remove(memory_entry_relations, OfM)
                 /\ document_tags' = {r \in document_tags : r[1] \notin D}
                 /\ memory_entry_tags' = {r \in memory_entry_tags : r[1] \notin M}
                 /\ memory_entry_document_relations' =
                        {r \in memory_entry_document_relations :
                             r[1] \notin M /\ r[2] \notin D}
                 /\ tags' = tags]_vars

\* A deleted project that had rows of every kind, next to a project that
\* keeps its own.
C9_Witness ==
    /\ last.op = "delete_project"
    /\ {"row", "documents", "memory_entries", "versions", "document_tags",
        "memory_entry_tags", "links", "outgoing", "incoming"} \subseteq last.found
    /\ projects # <<>> /\ documents # <<>> /\ memory_entries # <<>>

\* ------------------------------------------------------------- associations
\* Attach and detach requests, one at a time, with one tag name.
NextAssociations ==
    \/ create_project("alpha", FALSE)
    \/ \E project_id \in ProjectIds :
           add_document(project_id, "alpha", "text", DefaultVersion)
    \/ \E project_id \in ProjectIds : add_memory_entry(project_id, "alpha")
    \/ \E document_id \in DocumentIds :
           add_tag_to_document(document_id, "draft")
    \/ \E memory_entry_id \in MemoryEntryIds :
           add_tag_to_memory_entry(memory_entry_id, "draft")
    \/ \E memory_entry_id \in MemoryEntryIds, document_id \in DocumentIds :
           link_memory_entry_to_document(memory_entry_id, document_id)
    \/ \E doc_id \in DocumentIds :
           add_tag_to_document_web(doc_id, "draft")
    \/ \E entry_id \in MemoryEntryIds :
           add_tag_to_memory_entry_web(entry_id, "draft")
    \/ \E document_id \in DocumentIds :
           remove_tag_from_document(document_id, "draft")
    \/ \E memory_entry_id \in MemoryEntryIds :
           remove_tag_from_memory_entry(memory_entry_id, "draft")
    \/ \E memory_entry_id \in MemoryEntryIds, document_id \in DocumentIds :
           unlink_memory_entry_from_document(memory_entry_id, document_id)

SpecAssociations == Init /\ [][NextAssociations]_vars

\* C16: for each of the three kinds of association, a detach whose owner has
\* no row, or whose association has no row, answers with a success and
\* leaves the store as it was; any other detach removes the association.
C16_DetachIsNoOpOrRemoves ==
    [][/\ \A d \in DocumentIds, t \in TagNames :
             remove_tag_from_document(d, t)
             => /\ last'.res = "ok"
                /\ IF d \in DOMAIN documents /\ <<d, t>> \in document_tags
                   THEN <<d, t>> \notin document_tags'
                   ELSE store' = store
       /\ \A m \in MemoryEntryIds, t \in TagNames :
             remove_tag_from_memory_entry(m, t)
             => /\ last'.res = "ok"
                /\ IF m \in DOMAIN memory_entries /\ <<m, t>> \in memory_entry_tags
                   THEN <<m, t>> \notin memory_entry_tags'
                   ELSE store' = store
       /\ \A m \in MemoryEntryIds, d \in DocumentIds :
             unlink_memory_entry_from_document(m, d)
             => /\ last'.res = "ok"
                /\ IF /\ m \in DOMAIN memory_entries
                      /\ <<m, d>> \in memory_entry_document_relations
                   THEN <<m, d>> \notin memory_entry_document_relations'
                   ELSE store' = store]_vars

\* C36: a detach of a tag from a document or from a memory entry removes at
\* most the row of that owner and that tag: the tag's own row, the tag's rows
\* with every other document or memory entry and every other table stay as
\* they were.
C36_DetachRemovesOnlyItsAssociation ==
    [][/\ \A d \in DocumentIds, t \in TagNames :
             (last'.op = "remove_tag_from_document" /\ last'.id = d
              /\ remove_tag_from_document(d, t))
             => /\ tags' = tags
                /\ document_tags \ document_tags' \subseteq {<<d, t>>}
                /\ document_tags' \subseteq document_tags
                /\ memory_entry_tags' = memory_entry_tags
                /\ <<projects, documents, document_versions, memory_entries,
                     memory_entry_relations, memory_entry_document_relations>>'
                   = <<projects, documents, document_versions, memory_entries,
                       memory_entry_relations, memory_entry_document_relations>>
       /\ \A m \in MemoryEntryIds, t \in TagNames :
             (last'.op = "remove_tag_from_memory_entry" /\ last'.id = m
              /\ remove_tag_from_memory_entry(m, t))
             => /\ tags' = tags
                /\ memory_entry_tags \ memory_entry_tags' \subseteq {<<m, t>>}
                /\ memory_entry_tags' \subseteq memory_entry_tags
                /\ document_tags' = document_tags
                /\ <<projects, documents, document_versions, memory_entries,
                     memory_entry_relations, memory_entry_document_relations>>'
                   = <<projects, documents, document_versions, memory_entries,
                       memory_entry_relations, memory_entry_document_relations>>]_vars

\* A tag taken off one memory entry while another memory entry and a
\* document still carry it.
C36_Witness ==
    /\ last.op = "remove_tag_from_memory_entry"
    /\ "association" \in last.found
    /\ \E t \in TagNames :
          /\ tags[t] > 0
          /\ <<last.id, t>> \notin memory_entry_tags
          /\ \E m \in DOMAIN memory_entries : <<m, t>> \in memory_entry_tags
          /\ \E d \in DOMAIN documents : <<d, t>> \in document_tags

\* C17: for each kind of association, an attach to an existing owner answers
\* with a success and leaves the association in place, through the tools and
\* through the web routes; when the association was already there the store
\* is left as it was, so a second attach changes nothing and the other side
\* is in the owner's list once.
C17_AttachIsIdempotent ==
    [][/\ \A d \in DocumentIds, t \in TagNames :
             (/\ d \in DOMAIN documents
              /\ add_tag_to_document(d, t) \/ add_tag_to_document_web(d, t))
             => /\ last'.res = "ok"
                /\ <<d, t>> \in document_tags'
                /\ <<d, t>> \in document_tags => store' = store
       /\ \A m \in MemoryEntryIds, t \in TagNames :
             (/\ m \in DOMAIN memory_entries
              /\ add_tag_to_memory_entry(m, t) \/ add_tag_to_memory_entry_web(m, t))
             => /\ last'.res = "ok"
                /\ <<m, t>> \in memory_entry_tags'
                /\ <<m, t>> \in memory_entry_tags => store' = store
       /\ \A m \in MemoryEntryIds, d \in DocumentIds :
             (/\ m \in DOMAIN memory_entries /\ d \in DOMAIN documents
              /\ link_memory_entry_to_document(m, d))
             => /\ last'.res = "ok"
                /\ <<m, d>> \in memory_entry_document_relations'
                /\ <<m, d>> \in memory_entry_document_relations => store' = store]_vars

\* C18: attaching a tag to a document or a memory entry that has no row
\* answers "not found" and leaves the store as it was: no association row
\* and no tag row is written.
C18_AttachToAbsentOwner ==
    [][/\ \A d \in DocumentIds, t \in TagNames :
             (/\ d \notin DOMAIN documents
              /\ add_tag_to_document(d, t) \/ add_tag_to_document_web(d, t))
             => (last'.res = "not_found" /\ store' = store)
       /\ \A m \in MemoryEntryIds, t \in TagNames :
             (/\ m \notin DOMAIN memory_entries
              /\ add_tag_to_memory_entry(m, t) \/ add_tag_to_memory_entry_web(m, t))
             => (last'.res = "not_found" /\ store' = store)]_vars

\* A refused attach to an absent memory entry, next to an entry that exists,
\* while the tag has no row.
C18_Witness ==
    /\ last.op = "add_tag_to_memory_entry" /\ last.res = "not_found"
    /\ last.id \notin DOMAIN memory_entries
    /\ memory_entries # <<>>
    /\ \A t \in TagNames : tags[t] = 0

\* ------------------------------------------------------------- relations
\* Requests that link and unlink memory entries, one at a time.
NextRelations ==
    \/ create_project("alpha", FALSE)
    \/ \E project_id \in ProjectIds : add_memory_entry(project_id, "alpha")
    \/ \E memory_entry_id \in MemoryEntryIds : delete_memory_entry(memory_entry_id)
    \/ \E source \in MemoryEntryIds, target \in MemoryEntryIds,
          t \in Optional(RelationTypes) : link_memory_entries(source, target, t)
    \/ \E relation_id \in RelationIds : unlink_memory_entries(relation_id)
    \/ \E relation_id \in RelationIds : unlink_memory_relation_web(relation_id)

SpecRelations == Init /\ [][NextRelations]_vars

\* C22: an unlink of an id that no relation has answers "not found" and
\* changes nothing, through the tool and through the route; an unlink of an
\* existing relation removes that row and leaves every other relation and
\* every entry as it was.
C22_Unlink ==
    [][\A r \in RelationIds :
          (unlink_memory_entries(r) \/ unlink_memory_relation_web(r))
          => IF r \in DOMAIN memory_entry_relations
             THEN /\ last'.res = "ok"
                  /\ memory_entry_relations' = Remove(memory_entry_relations, {r})
                  /\ memory_entries' = memory_entries
             ELSE /\ last'.res = "not_found"
                  /\ store' = store]_vars

\* C23: a link between two different ids of which the source or the target
\* has no entry answers "not found" and writes nothing.
C23_LinkNeedsBothEntries ==
    [][\A a \in MemoryEntryIds, b \in MemoryEntryIds, t \in Optional(RelationTypes) :
          (/\ a # b
           /\ a \notin DOMAIN memory_entries \/ b \notin DOMAIN memory_entries
           /\ link_memory_entries(a, b, t))
          => (last'.res = "not_found" /\ store' = store)]_vars

\* A refused link whose source exists and whose target does not.
C23_Witness ==
    /\ last.op = "link_memory_entries" /\ last.res = "not_found"
    /\ last.id \in DOMAIN memory_entries
    /\ Cardinality(DOMAIN memory_entries) = 1

\* C24: a link between two different existing entries succeeds and adds one
\* relation row under an id no row had, with the source, target and type it
\* was given, whether or not a row with the same three values is there; the
\* rows that were there stay.
C24_LinkAlwaysInserts ==
    [][\A a \in MemoryEntryIds, b \in MemoryEntryIds, t \in Optional(RelationTypes) :
          (/\ a # b
           /\ a \in DOMAIN memory_entries /\ b \in DOMAIN memory_entries
           /\ link_memory_entries(a, b, t))
          => /\ last'.res = "ok"
             /\ \E r \in RelationIds \ DOMAIN memory_entry_relations :
                   memory_entry_relations' =
                       Put(memory_entry_relations, r,
                           [source |-> a, target |-> b, relation_type |-> t])]_vars

\* A successful link that left two rows with the same source, target and
\* type.
C24_Witness ==
    /\ last.op = "link_memory_entries" /\ last.res = "ok"
    /\ \E r1 \in DOMAIN memory_entry_relations, r2 \in DOMAIN memory_entry_relations :
          r1 # r2 /\ memory_entry_relations[r1] = memory_entry_relations[r2]

\* C26: after a successful link from a to b with type t, the new relation
\* is in the outgoing list of a with target b and type t and in the incoming
\* list of b with source a and type t, and it is neither in the incoming list
\* of a nor in the outgoing list of b, whatever else the store holds.
C26_RelatedListsAreDirected ==
    [][\A a \in MemoryEntryIds, b \in MemoryEntryIds, r \in RelationIds,
          t \in Optional(RelationTypes) :
          (/\ a # b
           /\ a \in DOMAIN memory_entries /\ b \in DOMAIN memory_entries
           /\ r = NewId(memory_entry_relations)
           /\ link_memory_entries(a, b, t))
          => /\ [relation_id |-> r, relation_type |-> t, target_entry_id |-> b]
                    \in list_related_memory_entries(a)'.relations_from_this
             /\ [relation_id |-> r, relation_type |-> t, source_entry_id |-> a]
                    \in list_related_memory_entries(b)'.relations_to_this
             /\ \A e \in list_related_memory_entries(a)'.relations_to_this :
                    e.relation_id # r
             /\ \A e \in list_related_memory_entries(b)'.relations_from_this :
                    e.relation_id # r]_vars

\* A successful link into a store that already holds a relation in the
\* opposite direction.
C26_Witness ==
    /\ last.op = "link_memory_entries" /\ last.res = "ok"
    /\ last.id \in DOMAIN memory_entry_relations
    /\ \E r \in DOMAIN memory_entry_relations :
          /\ memory_entry_relations[r].source = memory_entry_relations[last.id].target
          /\ memory_entry_relations[r].target = memory_entry_relations[last.id].source

\* ------------------------------------------------------------- updates
\* Update requests on projects, documents and memory entries, one at a time.
NextUpdates ==
    \/ create_project("alpha", FALSE)
    \/ \E project_id \in ProjectIds, name \in Optional(Names),
          is_active \in Optional(BOOLEAN) :
           update_project(project_id, name, is_active)
    \/ add_document(1, "alpha", "text", DefaultVersion)
    \/ \E document_id \in DocumentIds, name \in Optional(Names) :
           update_document(document_id, name)
    \/ add_memory_entry(1, "alpha")
    \/ \E type \in Optional(MemoryTypes), title \in Optional(Names),
          content \in Optional(Contents) :
           update_memory_entry(1, type, title, content)

SpecUpdates == Init /\ [][NextUpdates]_vars

NextFailures ==
    \/ \E name \in Names : create_project(name, FALSE)
    \/ \E project_id \in ProjectIds : delete_project(project_id)
    \/ \E project_id \in ProjectIds, step \in DeleteProjectSteps :
           delete_project_interrupted(project_id, step)
    \/ \E project_id \in ProjectIds :
           add_document(project_id, "alpha", "text", DefaultVersion)
    \/ \E project_id \in ProjectIds, step \in AddDocumentSteps :
           add_document_interrupted(project_id, "alpha", "text", DefaultVersion, step)
    \/ \E document_id \in DocumentIds, tag_name \in TagNames :
           add_tag_to_document(document_id, tag_name)
    \/ \E document_id \in DocumentIds, tag_name \in TagNames, step \in AddTagSteps :
           add_tag_to_document_interrupted(document_id, tag_name, step)

SpecFailures == Init /\ [][NextFailures]_vars

\* C13: a write request interrupted by a storage failure leaves the store as
\* it was and does not answer with a success.
C13_FailureRollsBackInFull ==
    [][(\/ \E p \in ProjectIds, step \in DeleteProjectSteps :
              delete_project_interrupted(p, step)
        \/ \E p \in ProjectIds, step \in AddDocumentSteps :
              add_document_interrupted(p, "alpha", "text", DefaultVersion, step)
        \/ \E d \in DocumentIds, n \in TagNames, step \in AddTagSteps :
              add_tag_to_document_interrupted(d, n, step))
       => (store' = store /\ last'.res # "ok")]_vars

\* ------------------------------------------------------------- the engine
\* The class of the connection the "connect" event hands to its listeners
\* under the default DATABASE_URL (sqlite+aiosqlite) lives in this module.
DbapiConnectionModule == <<"sqlalchemy", "dialects", "sqlite", "aiosqlite">>

\* _set_sqlite_pragma: dbapi_connection.__class__.__module__.split('.')[0]
driver_name(module) == Head(module)

\* _set_sqlite_pragma executes PRAGMA foreign_keys=ON for the driver "sqlite3"
\* only; SQLite enforces no foreign key without it.
ForeignKeysEnforced == driver_name(DbapiConnectionModule) = "sqlite3"

\* ------------------------------------------------------------- concurrent requests
\* A request of transaction t, one statement at a time.  A SELECT reads the
\* committed rows.  From its first INSERT or UPDATE to its commit a
\* transaction is the only writer and nobody sees its rows, so that stretch
\* is one step.
Finish(t, res) == [Idle EXCEPT !.pc = "done", !.op = tx[t].op, !.id = tx[t].id,
                               !.tag = tx[t].tag, !.label = tx[t].label,
                               !.raced = tx[t].raced, !.holds = tx[t].holds,
                               !.res = res]
Free(t) == tx[t].pc \in {"idle", "done"}

\* -- create_document_version_web / add_document_version_db
AV_Begin(t, doc_id, version_string, content) ==
    /\ Free(t)
    /\ tx' = [tx EXCEPT ![t] = [Idle EXCEPT !.pc = "av_get", !.op = "add_version",
                                           !.id = doc_id, !.label = version_string,
                                           !.content = content]]
    /\ UNCHANGED <<store, last>>

\* document = await session.get(Document, document_id)
AV_Get(t) ==
    /\ tx[t].pc = "av_get"
    /\ tx' = [tx EXCEPT ![t] =
                 IF tx[t].id \in DOMAIN documents
                 THEN [tx[t] EXCEPT !.pc = "av_check",
                                    !.loaded = [content |-> documents[tx[t].id].content,
                                                version |-> documents[tx[t].id].version]]
                 ELSE Finish(t, "none")]
    /\ UNCHANGED <<store, last>>

\* existing_version_result.scalar_one_or_none()
AV_Check(t) ==
    /\ tx[t].pc = "av_check"
    /\ LET n == Cardinality(ExistingVersions(tx[t].id, tx[t].label)) IN
       tx' = [tx EXCEPT ![t] = IF n = 0 THEN [tx[t] EXCEPT !.pc = "av_flush"]
                               ELSE IF n = 1 THEN Finish(t, "ValueError")
                               ELSE Finish(t, "none")]
    /\ UNCHANGED <<store, last>>

\* session.flush(), the two refreshes and the commit of the scope.  When the
\* parent row is gone its UPDATE matches no row (StaleDataError) or, with
\* nothing to update, its refresh finds no row (InvalidRequestError): the
\* helper answers (None, None), the route raises and the scope rolls back.
AV_Flush(t) ==
    /\ tx[t].pc = "av_flush"
    /\ IF tx[t].id \in DOMAIN documents
       THEN /\ NewId(document_versions) \in VersionIds
            /\ add_document_version_db(tx[t].id, tx[t].loaded, tx[t].content,
                                       tx[t].label)
            /\ tx' = [tx EXCEPT ![t] = Finish(t, "ok")]
       ELSE /\ UNCHANGED <<documents, document_versions>>
            /\ tx' = [tx EXCEPT ![t] = Finish(t, "none")]
    /\ UNCHANGED <<projects, document_tags, memoryTables, tags,
                   memory_entry_document_relations, last>>

\* -- add_tag_to_document / add_tag_to_document_db / get_or_create_tag
AT_Begin(t, document_id, tag_name) ==
    /\ Free(t)
    /\ tx' = [tx EXCEPT ![t] = [Idle EXCEPT !.pc = "at_doc", !.op = "add_tag",
                                           !.id = document_id, !.tag = tag_name]]
    /\ UNCHANGED <<store, last>>

\* select(Document).options(selectinload(Document.tags)): the document and
\* the tags it has now.  Without the document the helper answers False and
\* the tool reports it as not found.
AT_Doc(t) ==
    /\ tx[t].pc = "at_doc"
    /\ tx' = [tx EXCEPT ![t] =
                 IF tx[t].id \in DOMAIN documents
                 THEN [tx[t] EXCEPT !.pc = "at_tag",
                                    !.seen = {r[2] : r \in {r \in document_tags :
                                                                r[1] = tx[t].id}}]
                 ELSE Finish(t, "not_found")]
    /\ UNCHANGED <<store, last>>

\* get_or_create_tag: select(Tag).where(Tag.name == tag_name)
AT_Tag(t) ==
    /\ tx[t].pc = "at_tag"
    /\ tx' = [tx EXCEPT ![t] =
                 IF tags[tx[t].tag] > 0
                 THEN [tx[t] EXCEPT !.pc = "at_add", !.holds = tx[t].tag]
                 ELSE [tx[t] EXCEPT !.pc = "at_new"]]
    /\ UNCHANGED <<store, last>>

\* The INSERT into document_tags and the commit of the scope.  A foreign key
\* the engine enforces rejects the row of a document that is gone; the
\* primary key rejects a row that is there.  The tool reports a failure of a
\* document that is gone as not found.
AttachRow(t, res) ==
    LET row == <<tx[t].id, tx[t].tag>> IN
    IF tx[t].tag \in tx[t].seen
    THEN /\ UNCHANGED document_tags
         /\ res = "ok"
    ELSE IF AssociationInsertConflicts(document_tags, row)
    THEN /\ UNCHANGED document_tags
         /\ res = IF tx[t].id \in DOMAIN documents THEN "error" ELSE "not_found"
    ELSE IF ForeignKeysEnforced /\ tx[t].id \notin DOMAIN documents
    THEN /\ UNCHANGED document_tags
         /\ res = "not_found"
    ELSE /\ document_tags' = document_tags \cup {row}
         /\ res = "ok"

\* The tag was found: `if tag not in document.tags: document.tags.add(tag)`.
AT_Add(t) ==
    /\ tx[t].pc = "at_add"
    /\ \E res \in {"ok", "error", "not_found"} :
          /\ AttachRow(t, res)
          /\ tx' = [tx EXCEPT ![t] = Finish(t, res)]
    /\ UNCHANGED <<projects, documents, document_versions, memoryTables, tags,
                   memory_entry_document_relations, last>>

\* The tag was not found: session.add(tag); session.flush().  When no row
\* of the name is there the INSERT succeeds and the association follows in
\* the same transaction; the INSERT rolls back with it when that fails.
\* When a row is there now, the INSERT raises IntegrityError and
\* get_or_create_tag calls session.rollback() inside the caller's
\* `async with session.begin()`: that closes the transaction of the scope,
\* the session refuses the SELECT that follows (InvalidRequestError, an
\* SQLAlchemyError), get_or_create_tag returns no tag, the helper answers
\* False and nothing is written.
AT_New(t) ==
    /\ tx[t].pc = "at_new"
    /\ IF TagInsertConflicts(tx[t].tag)
       THEN /\ tx' = [tx EXCEPT ![t] = [Finish(t, "error") EXCEPT !.raced = TRUE]]
            /\ UNCHANGED <<tags, document_tags>>
       ELSE \E res \in {"ok", "error", "not_found"} :
               /\ AttachRow(t, res)
               /\ tags' = IF res = "ok" THEN [tags EXCEPT ![tx[t].tag] = @ + 1]
                          ELSE tags
               /\ tx' = [tx EXCEPT ![t] = [Finish(t, res) EXCEPT
                                              !.holds = tx[t].tag]]
    /\ UNCHANGED <<projects, documents, document_versions, memoryTables,
                   memory_entry_document_relations, last>>

\* -- set_active_project / set_active_project_in_db
SA_Begin(t, project_id) ==
    /\ Free(t)
    /\ tx' = [tx EXCEPT ![t] = [Idle EXCEPT !.pc = "sa_get", !.op = "activate",
                                           !.id = project_id]]
    /\ UNCHANGED <<store, last>>

\* project_to_activate = await session.get(Project, project_id); None ends
\* the helper, and the tool reports the project as not found.
SA_Get(t) ==
    /\ tx[t].pc = "sa_get"
    /\ tx' = [tx EXCEPT ![t] =
                 IF tx[t].id \in DOMAIN projects
                 THEN [tx[t] EXCEPT !.pc = "sa_select",
                                    !.is_active = projects[tx[t].id].is_active]
                 ELSE Finish(t, "not_found")]
    /\ UNCHANGED <<store, last>>

\* select(Project).where(Project.is_active == True, Project.id != project_id)
SA_Select(t) ==
    /\ tx[t].pc = "sa_select"
    /\ tx' = [tx EXCEPT ![t] = [tx[t] EXCEPT !.pc = "sa_flush",
                                             !.seen = ActiveProjects \ {tx[t].id}]]
    /\ UNCHANGED <<store, last>>

\* The rows the flush updates: is_active = False for each project the select
\* returned, is_active = True for the target when the loaded row was not
\* active.  A row no statement of this transaction changed is not written.
SA_Written(t) ==
    [p \in DOMAIN projects |->
        IF p \in tx[t].seen THEN [projects[p] EXCEPT !.is_active = FALSE]
        ELSE IF p = tx[t].id /\ ~tx[t].is_active
             THEN [projects[p] EXCEPT !.is_active = TRUE]
             ELSE projects[p]]

\* session.flush(), the refresh and the commit of the scope.
SA_Flush(t) ==
    /\ tx[t].pc = "sa_flush"
    /\ projects' = SA_Written(t)
    /\ tx' = [tx EXCEPT ![t] = Finish(t, "ok")]
    /\ UNCHANGED <<documentTables, memoryTables, tags,
                   memory_entry_document_relations, last>>

\* Requests of several clients that add versions, interleaved statement by
\* statement with each other and with whole creates and deletes.
NextVersions ==
    \/ create_project("alpha", FALSE)
    \/ \E p \in ProjectIds : add_document(p, "alpha", "text", DefaultVersion)
    \/ \E d \in DocumentIds : delete_document(d)
    \/ \E t \in Txs, d \in DocumentIds, v \in Labels, c \in Contents :
          AV_Begin(t, d, v, c)
    \/ \E t \in Txs : AV_Get(t)
    \/ \E t \in Txs : AV_Check(t)
    \/ \E t \in Txs : AV_Flush(t)

SpecVersions == Init /\ [][NextVersions]_vars

\* C3: no document has two version rows with the same label.
C3_NoDuplicateLabel ==
    \A d \in DocumentIds, v \in Labels : Cardinality(ExistingVersions(d, v)) <= 1

\* Requests of several clients that add versions to documents whose first
\* version carries a label of its own, so that two further labels are free.
NextVersionPairs ==
    \/ create_project("alpha", FALSE)
    \/ \E c \in Contents : add_document(1, "alpha", c, "0.9.0")
    \/ \E t \in Txs, d \in DocumentIds, v \in Labels, c \in Contents :
          AV_Begin(t, d, v, c)
    \/ \E t \in Txs : AV_Get(t)
    \/ \E t \in Txs : AV_Check(t)
    \/ \E t \in Txs : AV_Flush(t)

SpecVersionPairs == Init /\ [][NextVersionPairs]_vars

\* C34: once two add-version transactions on one document with different
\* labels have both committed, the document's content and version are those
\* of the last version in list_document_versions order, and exactly one
\* version is flagged current.
C34_ConcurrentVersionsAgree ==
    \A d \in DOMAIN documents :
        (/\ \A t \in Txs : /\ tx[t].pc = "done" /\ tx[t].op = "add_version"
                           /\ tx[t].res = "ok" /\ tx[t].id = d
                           /\ \E v \in VersionsOf(d) :
                                  document_versions[v].version = tx[t].label
         /\ \E t \in Txs, u \in Txs : tx[t].label # tx[u].label)
        => LET versions == list_document_versions(d)
               newest == document_versions[versions[Len(versions)].version_id]
           IN  /\ documents[d].content = newest.content
               /\ documents[d].version = newest.version
               /\ Cardinality({i \in DOMAIN versions : versions[i].is_current}) = 1

\* Requests of several clients that attach a tag to a document.
NextAttach ==
    \/ create_project("alpha", FALSE)
    \/ \E p \in ProjectIds : add_document(p, "alpha", "text", DefaultVersion)
    \/ \E d \in DocumentIds : delete_document(d)
    \/ \E t \in Txs, d \in DocumentIds : AT_Begin(t, d, "draft")
    \/ \E t \in Txs : AT_Doc(t)
    \/ \E t \in Txs : AT_Tag(t)
    \/ \E t \in Txs : AT_Add(t)
    \/ \E t \in Txs : AT_New(t)

SpecAttach == Init /\ [][NextAttach]_vars

\* C4: every caller get_or_create_tag returns to holds the tag of the name
\* it asked for, and the name has one row.
C4_EveryCallerHoldsTheTag ==
    [][\A t \in Txs :
          (tx[t].pc \in {"at_tag", "at_new"} /\ tx'[t].pc \in {"at_add", "done"})
          => (tx'[t].holds = tx[t].tag /\ tags'[tx[t].tag] = 1)]_vars

\* C5: an attach whose tag INSERT lost the race reports success, and its
\* association is in the table once its scope has closed.
C5_LostRaceInvisible ==
    [][\A t \in Txs :
          (tx[t].pc = "at_new" /\ TagInsertConflicts(tx[t].tag)
           /\ tx'[t].pc = "done")
          => (tx'[t].res = "ok" /\ <<tx[t].id, tx[t].tag>> \in document_tags')]_vars

\* C35: an attach that found no association of its document and tag, and
\* reaches its INSERT after a concurrent attach of the same pair has
\* committed, reports success, and the pair has its one row.
C35_ConcurrentAttachesSucceed ==
    [][\A t \in Txs :
          (/\ tx[t].pc \in {"at_add", "at_new"}
           /\ tx[t].tag \notin tx[t].seen
           /\ <<tx[t].id, tx[t].tag>> \in document_tags
           /\ tx'[t].pc = "done")
          => (/\ tx'[t].res = "ok"
              /\ <<tx[t].id, tx[t].tag>> \in document_tags')]_vars

\* C20: an attach that reaches its INSERT after the delete of its document
\* has committed does not report success, and once it has finished no row of
\* document_tags has the deleted document's id.
C20_AttachAfterDeleteLeavesNoRow ==
    [][\A t \in Txs :
          (/\ tx[t].pc \in {"at_add", "at_new"}
           /\ tx[t].id \notin DOMAIN documents
           /\ tx'[t].pc = "done")
          => (/\ tx'[t].res # "ok"
              /\ \A r \in document_tags' : r[1] # tx[t].id)]_vars

\* C10: every row refers to rows that exist.
C10_NoDanglingReference ==
    /\ \A d \in DOMAIN documents : documents[d].project_id \in DOMAIN projects
    /\ \A m \in DOMAIN memory_entries :
           memory_entries[m].project_id \in DOMAIN projects
    /\ \A v \in DOMAIN document_versions :
           document_versions[v].document_id \in DOMAIN documents
    /\ \A r \in DOMAIN memory_entry_relations :
           /\ memory_entry_relations[r].source \in DOMAIN memory_entries
           /\ memory_entry_relations[r].target \in DOMAIN memory_entries
    /\ \A r \in document_tags : r[1] \in DOMAIN documents /\ tags[r[2]] > 0
    /\ \A r \in memory_entry_tags : r[1] \in DOMAIN memory_entries /\ tags[r[2]] > 0
    /\ \A r \in memory_entry_document_relations :
           r[1] \in DOMAIN memory_entries /\ r[2] \in DOMAIN documents

\* Requests of several clients that activate a project, interleaved
\* statement by statement.  Projects are created inactive, so every set flag
\* was set by an activation.
NextActivate ==
    \/ \E name \in Names : create_project(name, FALSE)
    \/ \E t \in Txs, p \in ProjectIds : SA_Begin(t, p)
    \/ \E t \in Txs : SA_Get(t)
    \/ \E t \in Txs : SA_Select(t)
    \/ \E t \in Txs : SA_Flush(t)

SpecActivate == Init /\ [][NextActivate]_vars

\* C33: once two activations of different projects have both committed, at
\* most one project is active, also when each of them read the active
\* projects before the other committed.
C33_ConcurrentActivations ==
    (/\ \A t \in Txs : tx[t].pc = "done" /\ tx[t].op = "activate" /\ tx[t].res = "ok"
     /\ \E t \in Txs, u \in Txs : tx[t].id # tx[u].id)
    => Cardinality(ActiveProjects) <= 1

====
